---- MODULE Spec2Model ----
(***************************************************************************)
(* ipwatch: fetch the public IP, compare it with the tab-separated log,    *)
(* display the result and append the record (src/ipwatch.py).              *)
(*                                                                         *)
(* Text is modelled as a sequence of one-character strings, so that the    *)
(* csv writer and the csv reader work on the characters of the log file.   *)
(***************************************************************************)
EXTENDS Integers, Sequences, FiniteSets, TLC

\* ------------------------------------------------------------ characters
TAB == "\t"
CR  == "\r"
LF  == "\n"
DQ  == "\""
\* The reader's end-of-line sentinel (never a character of a file).
EOL == "EOL"
\* Python's None, a value that is not a str.
None == <<"None">>

\* ------------------------------------------------------- text constants
TXT_Timestamp == <<"T","i","m","e","s","t","a","m","p">>
TXT_IPAddress == <<"I","P"," ","A","d","d","r","e","s","s">>
TXT_ISP       == <<"I","S","P">>
TXT_Comment   == <<"C","o","m","m","e","n","t">>
TXT_NA        == <<"N","/","A">>
TXT_Empty     == <<>>

HEADERS == <<TXT_Timestamp, TXT_IPAddress, TXT_ISP, TXT_Comment>>

\* ----------------------------------------------------------------- bounds
\* Number of invocations of the program against the same log file.
MaxRuns == 2

\* ------------------------------------------------------------ csv.writer
\* csv.writer(f, delimiter="\t") with the default dialect: QUOTE_MINIMAL,
\* quotechar '"', doublequote, lineterminator "\r\n".
NeedsQuote(s) == \E i \in 1..Len(s) : s[i] \in {TAB, DQ, CR, LF}

\* A writer that quotes a field without doubling the quotes inside it.
DoubleQuotes_NoDoubling(s) == s

RECURSIVE DoubleQuotes(_)
DoubleQuotes(s) ==
    IF s = <<>> THEN <<>>
    ELSE (IF Head(s) = DQ THEN <<DQ, DQ>> ELSE <<Head(s)>>) \o DoubleQuotes(Tail(s))

\* One field as the writer emits it; None is written as the empty string.
csv_field(v, only) ==
    LET s == IF v = None THEN <<>> ELSE v
    IN  IF NeedsQuote(s) \/ (only /\ s = <<>>)
        THEN <<DQ>> \o DoubleQuotes(s) \o <<DQ>>
        ELSE s

RECURSIVE csv_join(_, _)
csv_join(row, only) ==
    IF row = <<>> THEN <<>>
    ELSE csv_field(Head(row), only)
         \o (IF Tail(row) = <<>> THEN <<>> ELSE <<TAB>> \o csv_join(Tail(row), only))

writerow(row) == csv_join(row, Len(row) = 1) \o <<CR, LF>>

\* ------------------------------------------------------------ csv.reader
\* Iterating a text file opened with newline="": lines end at "\n", "\r" or
\* "\r\n" and keep their terminator.
LineEnds(data) ==
    {i \in 1..Len(data) :
        \/ data[i] = LF
        \/ data[i] = CR /\ ~(i < Len(data) /\ data[i + 1] = LF)}

\* The k-th smallest member of a set of positions.
Nth(S, k) == CHOOSE e \in S : Cardinality({x \in S : x <= e}) = k

SplitLines(data) ==
    LET E == LineEnds(data)
        n == Cardinality(E)
        last == IF n = 0 THEN 0 ELSE Nth(E, n)
        full == [k \in 1..n |->
                    SubSeq(data, (IF k = 1 THEN 1 ELSE Nth(E, k - 1) + 1), Nth(E, k))]
    IN  IF last < Len(data) THEN Append(full, SubSeq(data, last + 1, Len(data)))
        ELSE full

\* The parser state of _csv's reader: state, the field being collected and
\* the fields of the record so far.
ParserReset == [state |-> "START_RECORD", field |-> <<>>, fields |-> <<>>]

parse_save_field(p) == [p EXCEPT !.fields = Append(@, p.field), !.field = <<>>]

parse_add_char(p, c) == [p EXCEPT !.field = Append(@, c)]

IsNewline(c) == c \in {LF, CR, EOL}

AfterNewline(c) == IF c = EOL THEN "START_RECORD" ELSE "EAT_CRNL"

parse_start_field(p, c) ==
    IF IsNewline(c) THEN [parse_save_field(p) EXCEPT !.state = AfterNewline(c)]
    ELSE IF c = DQ THEN [p EXCEPT !.state = "IN_QUOTED_FIELD"]
    ELSE IF c = TAB THEN [parse_save_field(p) EXCEPT !.state = "START_FIELD"]
    ELSE [parse_add_char(p, c) EXCEPT !.state = "IN_FIELD"]

parse_process_char(p, c) ==
    CASE p.state = "START_RECORD" ->
            IF c = EOL THEN p
            ELSE IF c \in {LF, CR} THEN [p EXCEPT !.state = "EAT_CRNL"]
            ELSE parse_start_field(p, c)
      [] p.state = "START_FIELD" -> parse_start_field(p, c)
      [] p.state = "IN_FIELD" ->
            IF IsNewline(c) THEN [parse_save_field(p) EXCEPT !.state = AfterNewline(c)]
            ELSE IF c = TAB THEN [parse_save_field(p) EXCEPT !.state = "START_FIELD"]
            ELSE parse_add_char(p, c)
      [] p.state = "IN_QUOTED_FIELD" ->
            IF c = EOL THEN p
            ELSE IF c = DQ THEN [p EXCEPT !.state = "QUOTE_IN_QUOTED_FIELD"]
            ELSE parse_add_char(p, c)
      [] p.state = "QUOTE_IN_QUOTED_FIELD" ->
            IF c = DQ THEN [parse_add_char(p, c) EXCEPT !.state = "IN_QUOTED_FIELD"]
            ELSE IF c = TAB THEN [parse_save_field(p) EXCEPT !.state = "START_FIELD"]
            ELSE IF IsNewline(c) THEN [parse_save_field(p) EXCEPT !.state = AfterNewline(c)]
            ELSE [parse_add_char(p, c) EXCEPT !.state = "IN_FIELD"]
      [] p.state = "EAT_CRNL" ->
            IF c \in {LF, CR} THEN p
            ELSE IF c = EOL THEN [p EXCEPT !.state = "START_RECORD"]
            ELSE [p EXCEPT !.state = "ERROR"]
      [] OTHER -> p

\* The characters of a piece of a line, fed to the parser in order (the
\* piece is halved to keep the evaluation shallow).
RECURSIVE parse_chars(_, _)
parse_chars(p, s) ==
    IF Len(s) = 0 THEN p
    ELSE IF Len(s) = 1 THEN parse_process_char(p, s[1])
    ELSE LET h == Len(s) \div 2
             q == parse_chars(p, SubSeq(s, 1, h))
         IN  IF q.state = "ERROR" THEN q
             ELSE parse_chars(q, SubSeq(s, h + 1, Len(s)))

\* Every character of the line, then the end-of-line sentinel.
parse_line(p, line) == parse_process_char(parse_chars(p, line), EOL)

\* list(reader): one record per call of the reader's __next__; a record may
\* span several lines (a quoted field that holds line breaks).  At the end of
\* the input a record left open is returned as it stands.  The result is the
\* records read and whether csv.Error was raised.
RECURSIVE reader_rows(_, _, _)
reader_rows(lines, p, rows) ==
    IF p.state = "ERROR" THEN [rows |-> rows, error |-> TRUE]
    ELSE IF lines = <<>>
    THEN IF p.field # <<>> \/ p.state = "IN_QUOTED_FIELD"
         THEN [rows |-> Append(rows, parse_save_field(p).fields), error |-> FALSE]
         ELSE [rows |-> rows, error |-> FALSE]
    ELSE LET q == parse_line(p, Head(lines))
         IN  IF q.state = "START_RECORD"
             THEN reader_rows(Tail(lines), ParserReset, Append(rows, q.fields))
             ELSE reader_rows(Tail(lines), q, rows)

csv_reader(data) == reader_rows(SplitLines(data), ParserReset, <<>>)

\* ------------------------------------------------------------ sample data
TXT_IP1  == <<"1",".","2",".","3",".","4">>
TXT_IP2  == <<"5",".","6",".","7",".","8">>
TXT_ACME == <<"A","C","M","E">>
TXT_Home == <<"h","o","m","e">>

\* args.comment: the default "", a comment holding a quote character and a
\* comment holding a tab.
Comments == {TXT_Empty, <<"a", DQ, "b">>, <<"a", TAB, "b">>}

\* A JSON object is a function from its keys to its values.
EmptyDict == [k \in {} |-> None]

Dict(query, isp) == [k \in {"query", "isp"} |-> IF k = "query" THEN query ELSE isp]

\* What provider.fetch_data() does: raise, or return the decoded JSON document
\* (an object, or a document that is not an object).
FetchOutcomes ==
    {[raises |-> e, json |-> "none", data |-> EmptyDict]
        : e \in {"URLError", "JSONDecodeError", "TimeoutError"}}
    \cup {[raises |-> "no", json |-> "list", data |-> EmptyDict]}
    \cup {[raises |-> "no", json |-> "dict", data |-> d]
        : d \in {EmptyDict,
                 Dict(TXT_IP1, TXT_ACME),
                 Dict(TXT_Empty, TXT_Empty),
                 Dict(None, TXT_ACME)}}

\* The state of the file system during one invocation: the directory of the
\* log file is missing (only while the file is), the file cannot be read (only
\* once it is there), or it cannot be written or created.
Envs == {"ok", "no_dir", "unreadable", "unwritable"}

\* ------------------------------------------------------- IPDataFormatter
DIGITS == <<"0","1","2","3","4","5","6","7","8","9">>

TwoDigits(n) == <<DIGITS[(n \div 10) + 1], DIGITS[(n % 10) + 1]>>

\* datetime.now().strftime("%Y-%m-%d %H:%M:%S"), the clock counting the
\* seconds of one day.
strftime(t) ==
    <<"2","0","2","4","-","0","1","-","0","1"," ">>
    \o TwoDigits((t \div 3600) % 24) \o <<":">>
    \o TwoDigits((t \div 60) % 60) \o <<":">>
    \o TwoDigits(t % 60)

dict_get(d, key, default) == IF key \in DOMAIN d THEN d[key] ELSE default

\* comment or "N/A"
comment_or_NA(c) == IF c # TXT_Empty THEN c ELSE TXT_NA

\* An IPRecord is <<timestamp, ip, isp, comment>>.
format(data, c, t) ==
    <<strftime(t), dict_get(data, "query", TXT_NA), dict_get(data, "isp", TXT_NA),
      comment_or_NA(c)>>

NoRecord == <<>>

\* --------------------------------------------------------- CSVDataStorage
RECURSIVE valid_rows(_)
valid_rows(rows) ==
    IF rows = <<>> THEN <<>>
    ELSE (IF Len(Head(rows)) >= 4 THEN <<Head(rows)>> ELSE <<>>) \o valid_rows(Tail(rows))

\* read_all_rows: the rows read and whether "Error reading file" was printed.
read_all_rows(exists, e, data) ==
    IF ~exists THEN [rows |-> <<>>, error |-> FALSE]
    ELSE IF e = "unreadable" THEN [rows |-> <<>>, error |-> TRUE]
    ELSE LET r == csv_reader(data)
         IN  [rows |-> valid_rows(IF r.rows = <<>> THEN <<>> ELSE Tail(r.rows)),
              error |-> r.error]

\* The set built from the wrong column (the ISP).
existing_ips_WrongColumn(rows) == {rows[i][3] : i \in 1..Len(rows)}

existing_ips(rows) == {rows[i][2] : i \in 1..Len(rows)}

\* The matches collected newest first.
RECURSIVE records_with_ip_Reversed(_, _)
records_with_ip_Reversed(rows, ip) ==
    IF rows = <<>> THEN <<>>
    ELSE records_with_ip_Reversed(Tail(rows), ip)
         \o (IF Head(rows)[2] = ip THEN <<SubSeq(Head(rows), 1, 4)>> ELSE <<>>)

RECURSIVE records_with_ip(_, _)
records_with_ip(rows, ip) ==
    IF rows = <<>> THEN <<>>
    ELSE (IF Head(rows)[2] = ip THEN <<SubSeq(Head(rows), 1, 4)>> ELSE <<>>)
         \o records_with_ip(Tail(rows), ip)

find_records_by_ip(exists, e, data, ip) ==
    records_with_ip(read_all_rows(exists, e, data).rows, ip)

\* A save that writes only a record that carries a comment.
save_OnlyWithComment(data, record) ==
    IF record[4] # TXT_NA THEN data \o writerow(record) ELSE data

\* save: what the file holds after the append.
save(data, record) == data \o writerow(record)

\* ------------------------------------------------------ TableDataPresenter
\* str.format with a width raises TypeError on a value that is None.
CanPrint(rows) == \A i \in 1..Len(rows) : \A j \in 1..Len(rows[i]) : rows[i][j] # None

Out(kind, rows) == [kind |-> kind, rows |-> rows]

display(record) == <<Out("table", <<record>>)>>

display_match_found(records) ==
    IF records = <<>> THEN <<>>
    ELSE <<Out("matches_found", <<>>), Out("table", records)>>

display_no_match == <<Out("no_match", <<>>)>>

ReadError(r) == IF r.error THEN <<Out("error_reading_file", <<>>)>> ELSE <<>>

\* The message of the except clause that catches the exception.
Handler(e) ==
    IF e = "URLError" THEN Out("network_error", <<>>)
    ELSE IF e = "JSONDecodeError" THEN Out("invalid_response", <<>>)
    ELSE Out("unexpected_error", <<>>)

\* ------------------------------------------------------------------ state
VARIABLES
    pc,          \* where the process is: main, run, read, display, save, return, exit
    runs,        \* invocations started
    env,         \* the file system's condition during this invocation
    clock,       \* wall-clock seconds
    fileExists,  \* os.path.exists(self.filename)
    fileData,    \* the characters of the log file
    comment,     \* args.comment
    record,      \* the formatted IPRecord
    all_rows,    \* the history read by run
    has_match,
    is_new,      \* what run returns
    stderr,      \* what was printed, in order
    exitCode,    \* the process's exit status, -1 while it runs
    traceback,   \* the process died of an uncaught exception
    log0,        \* history: the file's characters when run was entered
    saved,       \* history: the records save appended, in order
    created      \* history: _ensure_file_exists created the file

vars == <<pc, runs, env, clock, fileExists, fileData, comment, record, all_rows,
          has_match, is_new, stderr, exitCode, traceback, log0, saved, created>>

\* ---------------------------------------------------------- initial files
OldRow(ip) == <<strftime(0), ip, TXT_ACME, TXT_NA>>

HeaderOnly == writerow(HEADERS)

\* A row of three fields, and a row of five.
ShortRow == <<"x", TAB, "y", TAB, "z", CR, LF>>

LongRow == writerow(<<strftime(0), TXT_IP2, TXT_ACME, TXT_NA, TXT_Home>>)

\* A row of two fields whose first field opens a quote that is never closed.
OpenQuoteRow == <<DQ, "q", TAB, "z", CR, LF>>

\* The log files the program may find: the header alone, valid rows, and
\* rows of fewer than four fields before, between and after valid rows.
InitialFiles ==
    {HeaderOnly,
     HeaderOnly \o writerow(OldRow(TXT_IP1)),
     HeaderOnly \o writerow(OldRow(TXT_IP1)) \o writerow(OldRow(TXT_IP2))
                \o writerow(OldRow(TXT_IP1)),
     HeaderOnly \o ShortRow \o writerow(OldRow(TXT_IP1)) \o <<CR, LF>> \o LongRow
                \o ShortRow,
     HeaderOnly \o OpenQuoteRow \o writerow(OldRow(TXT_IP1))}

\* ------------------------------------------------------------------ Init
Init ==
    /\ pc = "main"
    /\ runs = 1
    /\ clock = 1
    /\ \/ /\ fileExists = FALSE
          /\ fileData = <<>>
          /\ env \in Envs \ {"unreadable"}
       \/ /\ fileExists = TRUE
          /\ fileData \in InitialFiles
          /\ env \in Envs \ {"no_dir"}
    /\ comment = TXT_Empty
    /\ record = NoRecord
    /\ all_rows = <<>>
    /\ has_match = FALSE
    /\ is_new = FALSE
    /\ stderr = <<>>
    /\ exitCode = -1
    /\ traceback = FALSE
    /\ log0 = <<>>
    /\ saved = <<>>
    /\ created = FALSE

\* --------------------------------------------------------------- actions
\* _ensure_file_exists: whether open(filename, "w") succeeds.
CanCreate(e) == e \notin {"no_dir", "unwritable"}

\* main: parse the arguments and build the service; CSVDataStorage() runs
\* _ensure_file_exists outside any try.
Main ==
    /\ pc = "main"
    /\ \E c \in Comments : comment' = c
    /\ IF fileExists
       THEN /\ pc' = "run"
            /\ log0' = fileData
            /\ UNCHANGED <<fileExists, fileData, exitCode, traceback, created>>
       ELSE IF CanCreate(env)
       THEN /\ pc' = "run"
            /\ fileExists' = TRUE
            /\ fileData' = writerow(HEADERS)
            /\ log0' = writerow(HEADERS)
            /\ created' = TRUE
            /\ UNCHANGED <<exitCode, traceback>>
       ELSE /\ pc' = "exit"
            /\ exitCode' = 1
            /\ traceback' = TRUE
            /\ UNCHANGED <<fileExists, fileData, log0, created>>
    /\ UNCHANGED <<runs, env, clock, record, all_rows, has_match, is_new, stderr, saved>>

\* A handler after which run returns True.
Caught_ReturnsTrue(e) ==
    /\ stderr' = Append(stderr, Handler(e))
    /\ is_new' = TRUE
    /\ pc' = "return"

\* An exception caught in run: the handler prints and run returns False.
Caught(e) ==
    /\ stderr' = Append(stderr, Handler(e))
    /\ is_new' = FALSE
    /\ pc' = "return"

\* A run that saves the record as soon as it is formatted, before the history
\* is read.
Fetch_SavesFirst ==
    /\ pc = "run"
    /\ \E o \in FetchOutcomes :
          IF o.raises # "no"
          THEN Caught(o.raises) /\ UNCHANGED <<record, fileData>>
          ELSE IF o.json # "dict"
          THEN Caught("AttributeError") /\ UNCHANGED <<record, fileData>>
          ELSE /\ record' = format(o.data, comment, clock)
               /\ fileData' = save(fileData, format(o.data, comment, clock))
               /\ pc' = "read"
               /\ UNCHANGED <<stderr, is_new>>
    /\ UNCHANGED <<runs, env, clock, fileExists, comment, all_rows, has_match,
                   exitCode, traceback, log0, saved, created>>

\* run: raw_data = provider.fetch_data(); record = formatter.format(...)
Fetch ==
    /\ pc = "run"
    /\ \E o \in FetchOutcomes :
          IF o.raises # "no"
          THEN Caught(o.raises) /\ UNCHANGED record
          ELSE IF o.json # "dict"
          THEN Caught("AttributeError") /\ UNCHANGED record
          ELSE /\ record' = format(o.data, comment, clock)
               /\ pc' = "read"
               /\ UNCHANGED <<stderr, is_new>>
    /\ UNCHANGED <<runs, env, clock, fileExists, fileData, comment, all_rows, has_match,
                   exitCode, traceback, log0, saved, created>>

\* run: all_rows = storage.read_all_rows(); has_match = current_ip in existing_ips
Read ==
    /\ pc = "read"
    /\ LET r == read_all_rows(fileExists, env, fileData)
       IN  /\ all_rows' = r.rows
           /\ has_match' = (record[2] \in existing_ips(r.rows))
           /\ stderr' = stderr \o ReadError(r)
    /\ pc' = "display"
    /\ UNCHANGED <<runs, env, clock, fileExists, fileData, comment, record, is_new,
                   exitCode, traceback, log0, saved, created>>

\* run: presenter.display(record), then the matches or the no-match notice.
Display ==
    /\ pc = "display"
    /\ IF ~CanPrint(<<record>>)
       THEN Caught("TypeError")
       ELSE /\ stderr' =
                 stderr \o display(record)
                 \o (IF has_match
                     THEN ReadError(read_all_rows(fileExists, env, fileData))
                          \o display_match_found(
                                 find_records_by_ip(fileExists, env, fileData, record[2]))
                     ELSE display_no_match)
            /\ pc' = "save"
            /\ UNCHANGED is_new
    /\ UNCHANGED <<runs, env, clock, fileExists, fileData, comment, record, all_rows,
                   has_match, exitCode, traceback, log0, saved, created>>

\* run: storage.save(record); return not has_match
Save ==
    /\ pc = "save"
    /\ IF env = "unwritable"
       THEN Caught("PermissionError") /\ UNCHANGED <<fileData, saved>>
       ELSE /\ fileData' = save(fileData, record)
            /\ saved' = Append(saved, record)
            /\ is_new' = ~has_match
            /\ pc' = "return"
            /\ UNCHANGED stderr
    /\ UNCHANGED <<runs, env, clock, fileExists, comment, record, all_rows, has_match,
                   exitCode, traceback, log0, created>>

\* An exit status with the two cases exchanged.
Exit_Inverted ==
    /\ pc = "return"
    /\ exitCode' = (IF is_new THEN 1 ELSE 0)
    /\ pc' = "exit"
    /\ UNCHANGED <<runs, env, clock, fileExists, fileData, comment, record, all_rows,
                   has_match, is_new, stderr, traceback, log0, saved, created>>

\* main: sys.exit(0 if is_new else 1)
Exit ==
    /\ pc = "return"
    /\ exitCode' = (IF is_new THEN 0 ELSE 1)
    /\ pc' = "exit"
    /\ UNCHANGED <<runs, env, clock, fileExists, fileData, comment, record, all_rows,
                   has_match, is_new, stderr, traceback, log0, saved, created>>

\* The program is invoked again, later, on the same log file.
Invoke ==
    /\ pc = "exit"
    /\ runs < MaxRuns
    /\ runs' = runs + 1
    /\ clock' = clock + 1
    /\ env' \in (IF fileExists THEN Envs \ {"no_dir"} ELSE Envs \ {"unreadable"})
    /\ pc' = "main"
    /\ comment' = TXT_Empty
    /\ record' = NoRecord
    /\ all_rows' = <<>>
    /\ has_match' = FALSE
    /\ is_new' = FALSE
    /\ stderr' = <<>>
    /\ exitCode' = -1
    /\ traceback' = FALSE
    /\ UNCHANGED <<fileExists, fileData, log0, saved, created>>

Next == Main \/ Fetch \/ Read \/ Display \/ Save \/ Exit \/ Invoke

Spec == Init /\ [][Next]_vars

\* ================================================================ claims
\* What the log holds, read when nothing prevents the read.
RowsOf(data) == read_all_rows(TRUE, "ok", data).rows

\* An except clause of run printed its message.
Failed == \E i \in 1..Len(stderr) :
              stderr[i].kind \in {"network_error", "invalid_response", "unexpected_error"}

Printed(kind) == \E i \in 1..Len(stderr) : stderr[i].kind = kind

\* run returned from its try block: fetched, compared, displayed and saved.
Completed == pc \in {"return", "exit"} /\ ~traceback /\ ~Failed

\* run left through an except clause before a record was formatted.
FetchFailed == pc \in {"return", "exit"} /\ ~traceback /\ record = NoRecord

InHistory(H, a) == \E i \in 1..Len(H) : H[i][2] = a

Addresses == {TXT_IP1, TXT_IP2, TXT_NA, TXT_Empty, None}

\* C1: a run that completes returns True (the address is new) if and only if
\* no record of the history it read has the fetched address as its ip.
C1_NewIffAbsent == Completed => (is_new <=> ~InHistory(all_rows, record[2]))

C1_Witness ==
    /\ pc = "exit"
    /\ Completed
    /\ ~is_new
    /\ Len(all_rows) >= 2
    /\ \E i \in 1..Len(all_rows) : all_rows[i][2] # record[2]

\* C2: for the history H read from the log and any address a, the matches
\* found for a are the records of H whose ip is a, as many as there are, each
\* in its place: the k-th match is the k-th record of H with that ip.
C2_MatchesExact ==
    pc = "display" =>
        LET H == read_all_rows(fileExists, env, fileData).rows
        IN  \A a \in Addresses :
                LET m == find_records_by_ip(fileExists, env, fileData, a)
                    idx == {i \in 1..Len(H) : H[i][2] = a}
                IN  /\ Len(m) = Cardinality(idx)
                    /\ \A k \in 1..Len(m) : m[k] = SubSeq(H[Nth(idx, k)], 1, 4)

C2_Witness ==
    /\ pc = "display"
    /\ LET H == read_all_rows(fileExists, env, fileData).rows
           m == find_records_by_ip(fileExists, env, fileData, TXT_IP1)
       IN  /\ Len(m) >= 2
           /\ m[1] # m[2]
           /\ Len(H) > Len(m)
           /\ H[2][2] # TXT_IP1

C4_AppendAfterCompare ==
    /\ pc \in {"run", "read", "display", "save"} => fileData = log0
    /\ (pc \in {"display", "save", "return", "exit"} /\ record # NoRecord
            /\ log0 = HeaderOnly) =>
          /\ ~has_match
          /\ (pc # "display" /\ CanPrint(<<record>>)) =>
                Printed("no_match") /\ ~Printed("matches_found")
          /\ Completed => is_new

C4_Witness ==
    /\ pc = "exit"
    /\ Completed
    /\ log0 = HeaderOnly
    /\ is_new
    /\ Printed("no_match")
    /\ InHistory(RowsOf(fileData), record[2])

NoTabNewline(r) == \A j \in 1..Len(r) : ~\E i \in 1..Len(r[j]) : r[j][i] \in {TAB, LF, CR}

\* C5: after any number of appends of records without tab or newline to a log
\* the program created, reading the log back once the process has ended
\* returns exactly the appended records, in the order of the appends and with
\* the same field values, repeated addresses included.
C5_RoundTrip ==
    (pc = "exit" /\ created /\ \A k \in 1..Len(saved) : NoTabNewline(saved[k])) =>
        RowsOf(fileData) = saved

C5_Witness ==
    /\ pc = "exit"
    /\ created
    /\ Len(saved) >= 2
    /\ \A k \in 1..Len(saved) : NoTabNewline(saved[k])
    /\ saved[1][2] = saved[2][2]
    /\ \E i \in 1..Len(saved[1][4]) : saved[1][4][i] = DQ
    /\ RowsOf(fileData) = saved

\* C6: when the fetch fails, the run displays no record, appends nothing (the
\* log is as it was when run was entered), prints one diagnostic message and
\* ends with the failure exit status.
C6_FetchFailure ==
    FetchFailed =>
        /\ fileData = log0
        /\ ~Printed("table") /\ ~Printed("no_match") /\ ~Printed("matches_found")
        /\ Len(stderr) = 1
        /\ Failed
        /\ ~is_new
        /\ pc = "exit" => exitCode = 1

C6_Witness ==
    /\ pc = "exit"
    /\ FetchFailed
    /\ Printed("network_error")
    /\ RowsOf(fileData) # <<>>

\* C7: the exit code is 0 exactly when the run completed and the fetched
\* address was absent from the history read; otherwise (the address present,
\* or any error) it is 1.
C7_ExitCode ==
    pc = "exit" =>
        /\ exitCode \in {0, 1}
        /\ exitCode = 0 <=> (Completed /\ ~InHistory(all_rows, record[2]))

C7_Witness ==
    /\ pc = "exit"
    /\ exitCode = 1
    /\ record # NoRecord
    /\ ~InHistory(all_rows, record[2])
    /\ Printed("no_match")
    /\ Printed("unexpected_error")

\* C8: no failure path ends in an uncaught exception, the failure to create
\* the log file at start-up included.
C8_NoUncaughtException == ~traceback

\* C9: every record the formatter produces has four non-empty string fields.
C9_FieldsNonEmpty ==
    record # NoRecord => \A j \in 1..4 : record[j] # None /\ record[j] # TXT_Empty

\* The lines of the log after the header, without their line ends, and the
\* tab-separated fields of a line.
StripEnd(line) == SelectSeq(line, LAMBDA c : c \notin {CR, LF})

DataLines(data) ==
    LET ls == SplitLines(data) IN IF ls = <<>> THEN <<>> ELSE Tail(ls)

Tabs(line) == {i \in 1..Len(line) : line[i] = TAB}

ValidLines(data) ==
    SelectSeq([k \in 1..Len(DataLines(data)) |-> StripEnd(DataLines(data)[k])],
              LAMBDA l : Cardinality(Tabs(l)) >= 3)

SecondField(line) == SubSeq(line, Nth(Tabs(line), 1) + 1, Nth(Tabs(line), 2) - 1)

\* C10: with rows of fewer than four fields among the valid rows of the log,
\* read_all_rows returns exactly the valid rows (the lines of four or more
\* fields), in file order, wherever the malformed rows sit.
C10_MalformedRowsSkipped ==
    (pc = "display" /\ env # "unreadable") =>
        LET v == ValidLines(fileData)
        IN  /\ Len(all_rows) = Len(v)
            /\ \A k \in 1..Len(all_rows) : all_rows[k][2] = SecondField(v[k])
====
